---- MODULE Spec2Model ----
(***************************************************************************)
(* Notebook-Library: the persistent Notepad tree (Notepad.ts), its flat    *)
(* projection, and the search index (SearchIndex.ts).                      *)
(*                                                                         *)
(* Objects live in a heap, because the code compares and links them by     *)
(* identity: heap.notepads, heap.sections and heap.notes are append-only   *)
(* sequences of object records and an object's identity is its index.      *)
(***************************************************************************)
EXTENDS Integers, Sequences, FiniteSets, TLC

VARIABLES
    heap,          \* [notepads, sections, notes]: every object allocated so far
    notepad,       \* the caller's current Notepad (an index of heap.notepads)
    nextRef,       \* internalRefs minted so far (fresh ones are nextRef + 1)
    freeSections,  \* Section objects not yet handed to a parent or superseded
    freeNotes,     \* Note objects not yet handed to a parent or superseded
    call,          \* the last mutator called: operation, receiver, argument, result
    flat,          \* the last result of flatten()
    rebuilt,       \* the last result of toNotepad()
    budget,        \* how many objects (or index entries) this run may add
    trie,          \* the search index: [lastModified, root, hashtags, size]
    added,         \* every add(key, ref) made on the index, in order
    enex           \* a running toNotepadFromEnex: its callbacks and locals

treeVars == <<heap, notepad, nextRef, freeSections, freeNotes, flat, rebuilt>>
trieVars == <<trie, added>>
vars == <<treeVars, call, budget, trieVars, enex>>

----------------------------------------------------------------------------
(* Bounds of the model *)

MaxObjects == 5       \* objects on the heap while Notepad and Note calls are made
MaxTreeObjects == 7   \* objects on the heap while a tree is built and flattened
MaxAdds == 3          \* add calls on an index that is searched
MaxIndexed == 2       \* add calls on an index that is asked shouldReindex
MaxEnexNotes == 2     \* notes of an Evernote export
MaxResources == 2     \* resources of one note of an Evernote export

(* Input domains *)

Titles == {"np", "renamed"}
Dates == {999, 1000}
Uuids == {"u1", "u2"}
Elements == {[type |-> "markdown", content |-> "- [] todo"],
             [type |-> "image", content |-> "AS"]}
Sources == {[id |-> 1, item |-> "markdown1"]}
Refs == {"r1", "r2"}
AddKeys == {<<>>, <<"a">>, <<"a", "b">>, <<"b">>, <<"#", "a">>, <<"#", "a", "b">>}
Queries == AddKeys \cup {<<"a", "a">>, <<"#">>, <<"b", "#">>}
SearchTitles == {"", "ab", "Tab"}
SearchContents == {"#ab", "x #ab y", "#abc", "xy", "#c #ab"}
SearchQueries == {"", "a", "AB", "ta", "b", "abc", "x",
                  "#", "#a", "#ab", "#AB", "#c", "#abc"}
NoteContents == {[elements |-> <<>>, bibliography |-> <<>>],
                 [elements |-> <<[type |-> "markdown", content |-> "- [] todo"]>>,
                  bibliography |-> <<[id |-> 1, item |-> "markdown1"]>>]}

----------------------------------------------------------------------------
(* Values *)

NoRef == 0
NoParent == [kind |-> "undefined", id |-> 0]
EmptyHeap == [notepads |-> <<>>, sections |-> <<>>, notes |-> <<>>]
NoCall == [op |-> "none", this |-> 0, arg |-> 0, ret |-> 0, pre |-> 0]
NoImport == [phase |-> "idle"]

MsPerSec == 1000

\* format(date, 'YYYY-MM-DDTHH:mm:ss.SSSZ'): the instant as its calendar
\* fields; seconds and milliseconds are the fields the model distinguishes.
FormatDate(d) == [sec |-> d \div MsPerSec, ms |-> d % MsPerSec]

\* parse(string): the instant the formatted fields denote.
ParseDate(s) == s.sec * MsPerSec + s.ms

\* {...a, ...b}
Merge(a, b) == [k \in DOMAIN a \cup DOMAIN b |-> IF k \in DOMAIN b THEN b[k] ELSE a[k]]

----------------------------------------------------------------------------
(* Notepad *)

\* new Notepad(title, opts); now is the value of new Date()
Notepad(title, opts, now) ==
    [title |-> title,
     lastModified |-> FormatDate(IF "lastModified" \in DOMAIN opts
                                    THEN opts.lastModified ELSE now),
     sections |-> IF "sections" \in DOMAIN opts THEN opts.sections ELSE <<>>,
     notepadAssets |-> IF "notepadAssets" \in DOMAIN opts THEN opts.notepadAssets ELSE <<>>,
     assets |-> IF "assets" \in DOMAIN opts THEN opts.assets ELSE <<>>]

\* A clone that forgets to carry lastModified over: the constructor then
\* stamps the new Notepad with the current time.
cloneDroppingDate(this, opts, title, now) ==
    Notepad(title,
            Merge([sections |-> this.sections,
                   notepadAssets |-> this.notepadAssets,
                   assets |-> this.assets], opts),
            now)

\* this.clone(opts, title)
clone(this, opts, title, now) ==
    Notepad(title,
            Merge([lastModified |-> ParseDate(this.lastModified),
                   sections |-> this.sections,
                   notepadAssets |-> this.notepadAssets,
                   assets |-> this.assets], opts),
            now)

\* The back-reference left pointing at the receiver.
addSectionParentStale(this, created) == this

\* section.parent = notepad: the Notepad the added section is linked to
addSectionParent(this, created) == created

\* this.addSection(section) on heap h: the new heap and the returned Notepad
addSection(h, this, section, now) ==
    LET np == clone(h.notepads[this],
                    [sections |-> Append(h.notepads[this].sections, section)],
                    h.notepads[this].title, now)
        created == Len(h.notepads) + 1
    IN  [h |-> [h EXCEPT !.notepads = Append(@, np),
                         !.sections[section].parent =
                             [kind |-> "Notepad", id |-> addSectionParent(this, created)]],
         ret |-> created]

\* An addAsset that pushes onto the receiver's own arrays before cloning.
addAssetInPlace(h, this, asset, now) ==
    LET grown == [h.notepads[this] EXCEPT
                      !.assets = Append(@, asset),
                      !.notepadAssets = Append(@, asset.uuid)]
    IN  [h |-> [h EXCEPT !.notepads = Append([@ EXCEPT ![this] = grown],
                                             clone(grown, << >>, grown.title, now))],
         ret |-> Len(h.notepads) + 1]

\* this.addAsset(asset)
addAsset(h, this, asset, now) ==
    LET np == clone(h.notepads[this],
                    [assets |-> Append(h.notepads[this].assets, asset),
                     notepadAssets |-> Append(h.notepads[this].notepadAssets, asset.uuid)],
                    h.notepads[this].title, now)
    IN  [h |-> [h EXCEPT !.notepads = Append(@, np)],
         ret |-> Len(h.notepads) + 1]

\* this.modified(lastModified)
modified(h, this, lastModified, now) ==
    LET np == clone(h.notepads[this], [lastModified |-> lastModified],
                    h.notepads[this].title, now)
    IN  [h |-> [h EXCEPT !.notepads = Append(@, np)],
         ret |-> Len(h.notepads) + 1]

----------------------------------------------------------------------------
(* Note: title, time, elements, bibliography, internalRef, parent *)

\* The task-list fix applied to markdown content when a Note is constructed.
FixGfm(element) ==
    IF element.type = "markdown" /\ element.content = "- [] todo"
        THEN [element EXCEPT !.content = "- [ ] todo"]
        ELSE element

\* new Note(title, time, elements, bibliography, internalRef)
Note(title, elements, bibliography, internalRef) ==
    [title |-> title,
     internalRef |-> internalRef,
     elements |-> [i \in DOMAIN elements |-> FixGfm(elements[i])],
     bibliography |-> bibliography,
     parent |-> NoParent]

\* note.clone(opts): a new Note with the same internalRef and parent
NoteClone(this, opts) ==
    LET o == Merge([elements |-> this.elements, bibliography |-> this.bibliography], opts)
    IN  [Note(this.title, o.elements, o.bibliography, this.internalRef)
            EXCEPT !.parent = this.parent]

\* note.addElement(element)
addElement(h, this, element) ==
    [h |-> [h EXCEPT !.notes = Append(@,
                NoteClone(h.notes[this], [elements |-> Append(h.notes[this].elements, element)]))],
     ret |-> Len(h.notes) + 1]

\* note.addSource(source)
addSource(h, this, source) ==
    [h |-> [h EXCEPT !.notes = Append(@,
                NoteClone(h.notes[this], [bibliography |-> Append(h.notes[this].bibliography, source)]))],
     ret |-> Len(h.notes) + 1]

----------------------------------------------------------------------------
(* Note.search and Note.getHashtags. A string is read through Characters,  *)
(* the sequence of its characters.                                         *)

Characters(s) ==
    CASE s = "" -> <<>>
      [] s = "a" -> <<"a">>
      [] s = "b" -> <<"b">>
      [] s = "x" -> <<"x">>
      [] s = "ab" -> <<"a", "b">>
      [] s = "AB" -> <<"A", "B">>
      [] s = "ta" -> <<"t", "a">>
      [] s = "xy" -> <<"x", "y">>
      [] s = "abc" -> <<"a", "b", "c">>
      [] s = "Tab" -> <<"T", "a", "b">>
      [] s = "#" -> <<"#">>
      [] s = "#a" -> <<"#", "a">>
      [] s = "#c" -> <<"#", "c">>
      [] s = "#ab" -> <<"#", "a", "b">>
      [] s = "#AB" -> <<"#", "A", "B">>
      [] s = "#abc" -> <<"#", "a", "b", "c">>
      [] s = "x #ab y" -> <<"x", " ", "#", "a", "b", " ", "y">>
      [] s = "#c #ab" -> <<"#", "c", " ", "#", "a", "b">>

\* one character of toLowerCase()
Lower(c) ==
    CASE c = "A" -> "a"
      [] c = "B" -> "b"
      [] c = "T" -> "t"
      [] OTHER -> c

\* string.toLowerCase()
toLowerCase(text) == [i \in DOMAIN text |-> Lower(text[i])]

\* a character a hashtag may continue with
IsWordChar(c) == c \notin {" ", "#"}

\* text.includes(q)
includes(text, q) ==
    \E k \in 0 .. Len(text) : k + Len(q) <= Len(text) /\ SubSeq(text, k + 1, k + Len(q)) = q

RECURSIVE wordEnd(_, _)
\* the last position of the run of word characters that starts after i
wordEnd(text, i) ==
    IF i < Len(text) /\ IsWordChar(text[i + 1]) THEN wordEnd(text, i + 1) ELSE i

RECURSIVE hashtagsFrom(_, _)
\* the matches of the hashtag pattern in text, scanning from position i
hashtagsFrom(text, i) ==
    IF i > Len(text) THEN <<>>
    ELSE IF text[i] = "#" /\ wordEnd(text, i) > i
        THEN <<SubSeq(text, i, wordEnd(text, i))>> \o hashtagsFrom(text, wordEnd(text, i) + 1)
        ELSE hashtagsFrom(text, i + 1)

RECURSIVE hashtagsOf(_)
\* note.getHashtags(): the hashtags of every element, in order of appearance
hashtagsOf(elements) ==
    IF elements = <<>> THEN <<>>
    ELSE hashtagsFrom(Characters(Head(elements).content), 1) \o hashtagsOf(Tail(elements))

getHashtags(note) == hashtagsOf(note.elements)

\* A hashtag test that accepts the beginning of a hashtag.
hashtagMatchesPrefix(note, q) ==
    \E i \in DOMAIN getHashtags(note) :
        Len(getHashtags(note)[i]) >= Len(q)
            /\ SubSeq(getHashtags(note)[i], 1, Len(q)) = q

\* the hashtag branch of search: the query is one of the note's hashtags
hashtagMatches(note, q) ==
    \E i \in DOMAIN getHashtags(note) : getHashtags(note)[i] = q

\* note.search(query): [note] or []
NoteSearch(h, this, query) ==
    LET q == Characters(query)
        note == h.notes[this]
    IN  IF q = <<>> THEN <<this>>
        ELSE IF q[1] = "#"
            THEN IF hashtagMatches(note, q) THEN <<this>> ELSE <<>>
            ELSE IF includes(toLowerCase(Characters(note.title)), toLowerCase(q))
                THEN <<this>> ELSE <<>>

----------------------------------------------------------------------------
(* Section: title, internalRef, sections, notes, parent *)

\* new Section(title, sections, notes, internalRef)
Section(title, sections, notes, internalRef) ==
    [title |-> title,
     internalRef |-> internalRef,
     sections |-> sections,
     notes |-> notes,
     parent |-> NoParent]

\* section.addSection(child): a new version of the receiver holding child,
\* and child.parent set to that new version
SectionAddSection(h, this, child) ==
    LET old == h.sections[this]
        created == Len(h.sections) + 1
    IN  [h |-> [h EXCEPT !.sections =
                    Append([@ EXCEPT ![child].parent = [kind |-> "Section", id |-> created]],
                           Section(old.title, Append(old.sections, child), old.notes,
                                   old.internalRef))],
         ret |-> created]

\* section.addNote(note)
SectionAddNote(h, this, note) ==
    LET old == h.sections[this]
        created == Len(h.sections) + 1
    IN  [h |-> [h EXCEPT !.sections =
                    Append(@, Section(old.title, old.sections, Append(old.notes, note),
                                      old.internalRef)),
                         !.notes[note].parent = [kind |-> "Section", id |-> created]],
         ret |-> created]

\* parent.internalRef, read through a back-reference: a Section has one, a
\* Notepad has none (the read yields undefined).
InternalRefOf(h, parent) ==
    IF parent.kind = "Section" THEN h.sections[parent.id].internalRef ELSE NoRef

----------------------------------------------------------------------------
(* FlatNotepad: title, lastModified, notepadAssets, and two maps keyed by  *)
(* internalRef. A map is a sequence of entries in insertion order, which   *)
(* is the order Object.values() reads it in.                               *)

\* {...map, [entry.internalRef]: entry}
Put(map, entry) ==
    IF \E i \in DOMAIN map : map[i].internalRef = entry.internalRef
        THEN [i \in DOMAIN map |->
                  IF map[i].internalRef = entry.internalRef THEN entry ELSE map[i]]
        ELSE Append(map, entry)

\* new FlatNotepad(title, opts)
FlatNotepad(title, opts) ==
    [title |-> title,
     lastModified |-> FormatDate(opts.lastModified),
     notepadAssets |-> opts.notepadAssets,
     sections |-> <<>>,
     notes |-> <<>>]

\* flatNotepad.addSection(flatSection)
FlatAddSection(fnp, flatSection) ==
    [fnp EXCEPT !.sections = Put(@, flatSection)]

\* flatNotepad.addNote(note): the note, its parent link now its owning
\* Section's internalRef
FlatAddNote(fnp, h, note) ==
    [fnp EXCEPT !.notes = Put(@, [h.notes[note] EXCEPT
                                     !.parent = InternalRefOf(h, h.notes[note].parent)])]

RECURSIVE flattenNotes(_, _, _)
\* section.notes.forEach(n => notepad = notepad.addNote(n))
flattenNotes(h, fnp, notes) ==
    IF notes = <<>> THEN fnp
    ELSE flattenNotes(h, FlatAddNote(fnp, h, Head(notes)), Tail(notes))

\* A descriptor that never records the parent.
flatParentRefNone(h, section) == NoRef

\* if (section.parent) flat.parentRef = section.parent.internalRef
\* (the value a reader of flat.parentRef sees; NoRef is undefined)
flatParentRef(h, section) ==
    IF h.sections[section].parent.kind # "undefined"
        THEN InternalRefOf(h, h.sections[section].parent)
        ELSE NoRef

RECURSIVE flattenSection(_, _, _)
RECURSIVE flattenSections(_, _, _)

\* sections.forEach(s => flattenSection(s))
flattenSections(h, fnp, sections) ==
    IF sections = <<>> THEN fnp
    ELSE flattenSections(h, flattenSection(h, fnp, Head(sections)), Tail(sections))

\* A flattenSection that does not descend into the child sections.
flattenSectionShallow(h, fnp, section) ==
    LET sec == h.sections[section]
        flatSection == [title |-> sec.title,
                        internalRef |-> sec.internalRef,
                        parentRef |-> flatParentRef(h, section)]
    IN  flattenNotes(h, FlatAddSection(fnp, flatSection), sec.notes)

\* the closure flattenSection of Notepad.flatten(), on the notepad built so far
flattenSection(h, fnp, section) ==
    LET sec == h.sections[section]
        flatSection == [title |-> sec.title,
                        internalRef |-> sec.internalRef,
                        parentRef |-> flatParentRef(h, section)]
    IN  flattenSections(h,
            flattenNotes(h, FlatAddSection(fnp, flatSection), sec.notes),
            sec.sections)

\* this.flatten()
flatten(h, this) ==
    flattenSections(h,
        FlatNotepad(h.notepads[this].title,
                    [lastModified |-> ParseDate(h.notepads[this].lastModified),
                     notepadAssets |-> h.notepads[this].notepadAssets]),
        h.notepads[this].sections)

----------------------------------------------------------------------------
(* FlatNotepad.toNotepad(): the tree rebuilt from the two maps, following  *)
(* parentRef links only. The result is built on a heap of its own.         *)

ChildSections(fnp, ref) == SelectSeq(fnp.sections, LAMBDA s : s.parentRef = ref)
ChildNotes(fnp, ref) == SelectSeq(fnp.notes, LAMBDA n : n.parent = ref)

RECURSIVE restoreNotes(_, _, _)
\* each flat note of the section is added with section.addNote(note)
restoreNotes(h, this, notes) ==
    IF notes = <<>> THEN [h |-> h, ret |-> this]
    ELSE LET n == Head(notes)
             h1 == [h EXCEPT !.notes = Append(@, [n EXCEPT !.parent = NoParent])]
             r == SectionAddNote(h1, this, Len(h1.notes))
         IN  restoreNotes(r.h, r.ret, Tail(notes))

RECURSIVE buildSection(_, _, _)
RECURSIVE restoreSections(_, _, _, _)

\* each flat child is built and added with section.addSection(child)
restoreSections(h, fnp, this, children) ==
    IF children = <<>> THEN [h |-> h, ret |-> this]
    ELSE LET b == buildSection(h, fnp, Head(children))
             r == SectionAddSection(b.h, this, b.ret)
         IN  restoreSections(r.h, fnp, r.ret, Tail(children))

\* the Section for one flat descriptor, with everything below it
buildSection(h, fnp, flatSection) ==
    LET h1 == [h EXCEPT !.sections =
                   Append(@, Section(flatSection.title, <<>>, <<>>, flatSection.internalRef))]
        r == restoreSections(h1, fnp, Len(h1.sections),
                             ChildSections(fnp, flatSection.internalRef))
    IN  restoreNotes(r.h, r.ret, ChildNotes(fnp, flatSection.internalRef))

RECURSIVE restoreTopLevel(_, _, _, _, _)
\* each flat section without a parentRef is added to the Notepad
restoreTopLevel(h, fnp, this, tops, now) ==
    IF tops = <<>> THEN [h |-> h, ret |-> this]
    ELSE LET b == buildSection(h, fnp, Head(tops))
             r == addSection(b.h, this, b.ret, now)
         IN  restoreTopLevel(r.h, fnp, r.ret, Tail(tops), now)

\* flatNotepad.toNotepad()
toNotepad(fnp, now) ==
    restoreTopLevel(
        [EmptyHeap EXCEPT !.notepads =
            <<Notepad(fnp.title, [lastModified |-> ParseDate(fnp.lastModified),
                                  notepadAssets |-> fnp.notepadAssets], now)>>],
        fnp, 1, ChildSections(fnp, NoRef), now)

----------------------------------------------------------------------------
(* SearchIndex: Trie and TrieNode. A string is the sequence of its         *)
(* characters. The nodes of the trie are kept by the path that leads to    *)
(* them: root[<<>>] is the root node and root[p] the node reached by p.    *)

\* A Date, as getTime() reads it: a number of milliseconds, or NaN
Date(ms) == [nan |-> FALSE, ms |-> ms]
InvalidDate == [nan |-> TRUE, ms |-> 0]

\* a > b on numbers that may be NaN
Greater(a, b) == ~a.nan /\ ~b.nan /\ a.ms > b.ms

IndexDates == {Date(1000), InvalidDate}
AskedDates == {Date(999), Date(1000), Date(1001), InvalidDate}

\* key.charAt(0) === '#'
IsHashtag(key) == Len(key) > 0 /\ key[1] = "#"

\* new TrieNode(key)
TrieNode(key) == [key |-> key, notes |-> <<>>, children |-> <<>>]

\* new Trie(lastModified)
Trie(lastModified) ==
    [lastModified |-> lastModified,
     root |-> [p \in {<<>>} |-> TrieNode("\\0")],
     hashtags |-> [k \in {} |-> <<>>],
     size |-> 0]

\* this.hashtags[key] || []
Bucket(t, key) == IF key \in DOMAIN t.hashtags THEN t.hashtags[key] ELSE <<>>

RECURSIVE descend(_, _, _)
\* the loop of add: for (ch of keyChars) { create the child if missing; step }
descend(root, key, i) ==
    IF i > Len(key) THEN root
    ELSE LET at == SubSeq(key, 1, i - 1)
             to == SubSeq(key, 1, i)
         IN  IF to \in DOMAIN root
                 THEN descend(root, key, i + 1)
                 ELSE descend([p \in DOMAIN root \cup {to} |->
                                  IF p = to THEN TrieNode(key[i])
                                  ELSE IF p = at
                                      THEN [root[at] EXCEPT !.children = Append(@, key[i])]
                                      ELSE root[p]],
                              key, i + 1)

\* An add that counts hashtag entries too.
sizeAfterAddAlways(t, key) == t.size + 1

\* this._size++ happens on the title path only
sizeAfterAdd(t, key) == IF IsHashtag(key) THEN t.size ELSE t.size + 1

\* A hashtag add without the indexOf check.
hashtagAddNoCheck(t, key, ref) ==
    [t EXCEPT !.hashtags =
        [k \in DOMAIN t.hashtags \cup {key} |->
            IF k = key THEN Append(Bucket(t, key), ref) ELSE t.hashtags[k]]]

\* the hashtag branch of add
hashtagAdd(t, key, ref) ==
    IF \E i \in DOMAIN Bucket(t, key) : Bucket(t, key)[i] = ref
        THEN t
        ELSE [t EXCEPT !.hashtags =
                 [k \in DOMAIN t.hashtags \cup {key} |->
                     IF k = key THEN Append(Bucket(t, key), ref) ELSE t.hashtags[k]]]

\* this.add(key, ref)
add(t, key, ref) ==
    IF IsHashtag(key)
        THEN [hashtagAdd(t, key, ref) EXCEPT !.size = sizeAfterAdd(t, key)]
        ELSE [t EXCEPT !.root = [descend(t.root, key, 1) EXCEPT ![key].notes = Append(@, ref)],
                       !.size = sizeAfterAdd(t, key)]

RECURSIVE getAllFrom(_, _)
RECURSIVE getAllFromChildren(_, _, _)

\* Object.values(this.children).reduce((acc, val) => acc.concat(val.getAllFrom()), [])
getAllFromChildren(root, path, children) ==
    IF children = <<>> THEN <<>>
    ELSE getAllFrom(root, Append(path, Head(children)))
             \o getAllFromChildren(root, path, Tail(children))

\* A getAllFrom that forgets the notes of the node itself.
getAllFromBelow(root, path) ==
    getAllFromChildren(root, path, root[path].children)

\* node.getAllFrom()
getAllFrom(root, path) ==
    root[path].notes \o getAllFromChildren(root, path, root[path].children)

RECURSIVE Unique(_)
\* [...new Set(list)]: the first occurrence of each element, in order
Unique(list) ==
    IF list = <<>> THEN <<>>
    ELSE LET front == Unique(SubSeq(list, 1, Len(list) - 1))
             last == list[Len(list)]
         IN  IF \E i \in DOMAIN front : front[i] = last THEN front ELSE Append(front, last)

\* A hashtag lookup that also accepts a longer stored hashtag.
searchHashtagPrefix(t, query) ==
    IF \E k \in DOMAIN t.hashtags : Len(k) >= Len(query) /\ SubSeq(k, 1, Len(query)) = query
        THEN t.hashtags[CHOOSE k \in DOMAIN t.hashtags :
                 Len(k) >= Len(query) /\ SubSeq(k, 1, Len(query)) = query]
        ELSE <<>>

\* return this.hashtags[query] || []
searchHashtag(t, query) == Bucket(t, query)

\* this.search(query)
search(t, query) ==
    IF IsHashtag(query)
        THEN searchHashtag(t, query)
        ELSE IF query \notin DOMAIN t.root
            THEN <<>>
            ELSE Unique(getAllFrom(t.root, query))

\* shouldReindex with the timestamp test the other way round (>=).
shouldReindexInclusive(t, lastModified, numberOfNotes) ==
    \/ (~t.lastModified.nan /\ ~lastModified.nan /\ t.lastModified.ms >= lastModified.ms)
    \/ numberOfNotes # t.size

\* A shouldReindex that compares the two timestamps the other way round.
shouldReindexReversed(t, lastModified, numberOfNotes) ==
    \/ Greater(lastModified, t.lastModified)
    \/ numberOfNotes # t.size

\* this.shouldReindex(lastModified, numberOfNotes)
shouldReindex(t, lastModified, numberOfNotes) ==
    \/ Greater(t.lastModified, lastModified)
    \/ numberOfNotes # t.size

----------------------------------------------------------------------------
(* Initial state: new Notepad(title) and nothing else *)

Start(limit) ==
    /\ \E now \in Dates :
           heap = [EmptyHeap EXCEPT !.notepads = <<Notepad("np", << >>, now)>>]
    /\ notepad = 1
    /\ nextRef = 0
    /\ freeSections = {}
    /\ freeNotes = {}
    /\ call = NoCall
    /\ flat = [valid |-> FALSE]
    /\ rebuilt = [valid |-> FALSE]
    /\ budget = limit
    /\ enex = NoImport
    /\ trie = [lastModified |-> InvalidDate, root |-> <<>>, hashtags |-> <<>>, size |-> 0]
    /\ added = <<>>

Init == Start(MaxObjects)

----------------------------------------------------------------------------
(* The operations a caller performs. A Section or Note value is handed to  *)
(* one parent once, bottom-up, as parseSection and restoreSection of the   *)
(* translators build a tree; freeSections and freeNotes are the values a   *)
(* caller still holds.                                                     *)

Objects(h) == Len(h.notepads) + Len(h.sections) + Len(h.notes)

\* Building stops at the budget, and once the tree has been flattened.
CanAllocate == Objects(heap) < budget /\ ~flat.valid

Record(op, this, arg, ret, pre) ==
    [op |-> op, this |-> this, arg |-> arg, ret |-> ret, pre |-> pre]

\* new Section(title)
NewSection ==
    /\ CanAllocate
    /\ heap' = [heap EXCEPT !.sections = Append(@, Section("s", <<>>, <<>>, nextRef + 1))]
    /\ nextRef' = nextRef + 1
    /\ freeSections' = freeSections \cup {Len(heap.sections) + 1}
    /\ call' = Record("newSection", 0, 0, Len(heap.sections) + 1, 0)
    /\ UNCHANGED <<notepad, freeNotes, flat, rebuilt, budget, enex, trieVars>>

\* new Note(title, time, elements, bibliography)
NewNote ==
    /\ CanAllocate
    /\ \E c \in NoteContents :
         heap' = [heap EXCEPT !.notes =
                     Append(@, Note("n", c.elements, c.bibliography, nextRef + 1))]
    /\ nextRef' = nextRef + 1
    /\ freeNotes' = freeNotes \cup {Len(heap.notes) + 1}
    /\ call' = Record("newNote", 0, 0, Len(heap.notes) + 1, 0)
    /\ UNCHANGED <<notepad, freeSections, flat, rebuilt, budget, enex, trieVars>>

\* note = note.addElement(element)
AddElement ==
    /\ CanAllocate
    /\ \E this \in freeNotes, element \in Elements :
         LET r == addElement(heap, this, element)
         IN  /\ heap' = r.h
             /\ freeNotes' = (freeNotes \ {this}) \cup {r.ret}
             /\ call' = Record("addElement", this, element, r.ret, heap.notes[this])
    /\ UNCHANGED <<notepad, nextRef, freeSections, flat, rebuilt, budget, enex, trieVars>>

\* note = note.addSource(source)
AddSource ==
    /\ CanAllocate
    /\ \E this \in freeNotes, source \in Sources :
         LET r == addSource(heap, this, source)
         IN  /\ heap' = r.h
             /\ freeNotes' = (freeNotes \ {this}) \cup {r.ret}
             /\ call' = Record("addSource", this, source, r.ret, heap.notes[this])
    /\ UNCHANGED <<notepad, nextRef, freeSections, flat, rebuilt, budget, enex, trieVars>>

\* section = section.addSection(child)
SectionAddSectionCall ==
    /\ CanAllocate
    /\ \E this \in freeSections : \E child \in freeSections \ {this} :
         LET r == SectionAddSection(heap, this, child)
         IN  /\ heap' = r.h
             /\ freeSections' = (freeSections \ {this, child}) \cup {r.ret}
             /\ call' = Record("Section.addSection", this, child, r.ret, heap.sections[this])
    /\ UNCHANGED <<notepad, nextRef, freeNotes, flat, rebuilt, budget, enex, trieVars>>

\* section = section.addNote(note)
SectionAddNoteCall ==
    /\ CanAllocate
    /\ \E this \in freeSections, note \in freeNotes :
         LET r == SectionAddNote(heap, this, note)
         IN  /\ heap' = r.h
             /\ freeSections' = (freeSections \ {this}) \cup {r.ret}
             /\ freeNotes' = freeNotes \ {note}
             /\ call' = Record("Section.addNote", this, note, r.ret, heap.sections[this])
    /\ UNCHANGED <<notepad, nextRef, flat, rebuilt, budget, enex, trieVars>>

\* notepad = notepad.addSection(section)
AddSection ==
    /\ CanAllocate
    /\ \E section \in freeSections, now \in Dates :
         LET r == addSection(heap, notepad, section, now)
         IN  /\ heap' = r.h
             /\ notepad' = r.ret
             /\ freeSections' = freeSections \ {section}
             /\ call' = Record("addSection", notepad, section, r.ret, heap.notepads[notepad])
    /\ UNCHANGED <<nextRef, freeNotes, flat, rebuilt, budget, enex, trieVars>>

\* notepad = notepad.addAsset(new Asset(data, uuid))
AddAsset ==
    /\ CanAllocate
    /\ \E uuid \in Uuids, now \in Dates :
         LET asset == [uuid |-> uuid]
             r == addAsset(heap, notepad, asset, now)
         IN  /\ heap' = r.h
             /\ notepad' = r.ret
             /\ call' = Record("addAsset", notepad, asset, r.ret, heap.notepads[notepad])
    /\ UNCHANGED <<nextRef, freeSections, freeNotes, flat, rebuilt, budget, enex, trieVars>>

\* notepad = notepad.modified(lastModified), the argument given or new Date()
Modified ==
    /\ CanAllocate
    /\ \E lastModified \in Dates, now \in Dates :
         LET r == modified(heap, notepad, lastModified, now)
         IN  /\ heap' = r.h
             /\ notepad' = r.ret
             /\ call' = Record("modified", notepad, lastModified, r.ret, heap.notepads[notepad])
    /\ UNCHANGED <<nextRef, freeSections, freeNotes, flat, rebuilt, budget, enex, trieVars>>

\* notepad = notepad.clone({}, title)
Clone ==
    /\ CanAllocate
    /\ \E title \in Titles, now \in Dates :
         /\ heap' = [heap EXCEPT !.notepads =
                        Append(@, clone(heap.notepads[notepad], << >>, title, now))]
         /\ notepad' = Len(heap.notepads) + 1
         /\ call' = Record("clone", notepad, title, Len(heap.notepads) + 1,
                           heap.notepads[notepad])
    /\ UNCHANGED <<nextRef, freeSections, freeNotes, flat, rebuilt, budget, enex, trieVars>>

\* flatNotepad = notepad.flatten()
Flatten ==
    /\ flat' = [valid |-> TRUE, src |-> notepad, value |-> flatten(heap, notepad)]
    /\ UNCHANGED <<heap, notepad, nextRef, freeSections, freeNotes, call, rebuilt, budget, enex, trieVars>>

\* flatNotepad.toNotepad()
ToNotepad ==
    /\ flat.valid
    /\ \E now \in Dates :
         LET r == toNotepad(flat.value, now)
         IN  rebuilt' = [valid |-> TRUE, src |-> flat.src, h |-> r.h, ret |-> r.ret]
    /\ UNCHANGED <<heap, notepad, nextRef, freeSections, freeNotes, call, flat, budget, enex, trieVars>>

\* Calls on Notepad and Note values
Next ==
    \/ NewSection
    \/ NewNote
    \/ AddElement
    \/ AddSource
    \/ AddSection
    \/ AddAsset
    \/ Modified
    \/ Clone

Spec == Init /\ [][Next]_vars

\* A tree is built bottom-up, flattened, and rebuilt from the flat form
\* (toNotepadFromNpx).
FlatInit == Start(MaxTreeObjects)

FlatNext ==
    \/ NewSection
    \/ NewNote
    \/ SectionAddSectionCall
    \/ SectionAddNoteCall
    \/ AddSection
    \/ Flatten
    \/ ToNotepad

FlatSpec == FlatInit /\ [][FlatNext]_vars

----------------------------------------------------------------------------
(* The search index in use: built with new Trie(lastModified), filled with *)
(* add, queried with search and shouldReindex.                             *)

TrieStart(limit) ==
    /\ heap = EmptyHeap
    /\ notepad = 0
    /\ nextRef = 0
    /\ freeSections = {}
    /\ freeNotes = {}
    /\ call = NoCall
    /\ flat = [valid |-> FALSE]
    /\ rebuilt = [valid |-> FALSE]
    /\ budget = limit
    /\ enex = NoImport
    /\ \E lastModified \in IndexDates : trie = Trie(lastModified)
    /\ added = <<>>

\* trie.add(key, ref)
TrieAdd ==
    /\ Len(added) < budget
    /\ \E key \in AddKeys, ref \in Refs :
         /\ trie' = add(trie, key, ref)
         /\ added' = Append(added, [key |-> key, ref |-> ref])
         /\ call' = Record("add", 0, [key |-> key, ref |-> ref], 0, trie)
    /\ UNCHANGED <<treeVars, budget, enex>>

\* trie.search(query)
TrieSearch ==
    /\ \E query \in Queries :
         call' = Record("search", 0, query, search(trie, query), trie)
    /\ UNCHANGED <<treeVars, budget, enex, trieVars>>

\* trie.shouldReindex(lastModified, numberOfNotes)
TrieShouldReindex ==
    /\ \E lastModified \in AskedDates, numberOfNotes \in 0 .. budget :
         call' = Record("shouldReindex", 0,
                        [lastModified |-> lastModified, numberOfNotes |-> numberOfNotes],
                        shouldReindex(trie, lastModified, numberOfNotes), trie)
    /\ UNCHANGED <<treeVars, budget, enex, trieVars>>

TrieInit == TrieStart(MaxAdds)

TrieNext ==
    \/ TrieAdd
    \/ TrieSearch

TrieSpec == TrieInit /\ [][TrieNext]_vars

ReindexInit == TrieStart(MaxIndexed)

ReindexNext ==
    \/ TrieAdd
    \/ TrieShouldReindex

ReindexSpec == ReindexInit /\ [][ReindexNext]_vars

----------------------------------------------------------------------------
(* A Note constructed with a title and elements, then searched *)

SearchElements ==
    {<<>>}
      \cup {<<[type |-> "markdown", content |-> c]>> : c \in SearchContents}
      \cup {<<[type |-> "markdown", content |-> c], [type |-> "markdown", content |-> d]>>
               : c \in SearchContents, d \in SearchContents}

NoteSearchInit ==
    /\ \E title \in SearchTitles, elements \in SearchElements :
           heap = [EmptyHeap EXCEPT !.notes = <<Note(title, elements, <<>>, 1)>>]
    /\ notepad = 0
    /\ nextRef = 1
    /\ freeSections = {}
    /\ freeNotes = {1}
    /\ call = NoCall
    /\ flat = [valid |-> FALSE]
    /\ rebuilt = [valid |-> FALSE]
    /\ budget = 0
    /\ enex = NoImport
    /\ trie = [lastModified |-> InvalidDate, root |-> <<>>, hashtags |-> <<>>, size |-> 0]
    /\ added = <<>>

\* note.search(query)
NoteSearchCall ==
    /\ \E this \in freeNotes, query \in SearchQueries :
         call' = Record("Note.search", this, query, NoteSearch(heap, this, query),
                        heap.notes[this])
    /\ UNCHANGED <<treeVars, budget, enex, trieVars>>

NoteSearchNext ==
    \/ NoteSearchCall

NoteSearchSpec == NoteSearchInit /\ [][NoteSearchNext]_vars

----------------------------------------------------------------------------
(* Translators.Xml.toNotepadFromEnex. The function is async: the callback  *)
(* of every note runs to its first await when map() calls it, the callback *)
(* of every resource suspends at await dataURItoBlob(...), and from then   *)
(* on each continuation runs to its end before another one starts, in an   *)
(* order the resolution of the blobs decides.                              *)

\* resource.mime[0]
Mimes == {"image/png", "application/pdf"}

\* resource.mime[0].includes('image')
IsImage(mime) == mime = "image/png"

\* pd.xml(enexNote.content[0]), as its lines
EnexHeader == <<"<?xml?>", "<!DOCTYPE en-note>", "<en-note>">>
EnexContents == {EnexHeader \o <<"</en-note>">>,
                 EnexHeader \o <<"<div>hello</div>", "</en-note>">>,
                 EnexHeader \o <<"<div>AS</div>", "</en-note>">>}

\* service.turndown(html) of one line
turndown(html) ==
    CASE html = "<div>hello</div>" -> "hello"
      [] html = "<div>AS</div>" -> "AS"

\* enmlToMarkdown(enml): drop the three header lines and the closing line,
\* convert the rest
enmlToMarkdown(enml) ==
    LET lines == SubSeq(enml, 4, Len(enml) - 1)
    IN  IF lines = <<>> THEN "" ELSE turndown(lines[1])

\* enexNote.resource || []
ResourceLists == UNION {[1 .. k -> Mimes] : k \in 0 .. MaxResources}

\* exported.note || []
EnexNotes == [content : EnexContents, resource : ResourceLists]
EnexExports == UNION {[1 .. k -> EnexNotes] : k \in 0 .. MaxEnexNotes}

\* array.reverse()
reverse(array) == [i \in 1 .. Len(array) |-> array[Len(array) + 1 - i]]

\* new Asset(blob): an asset under a uuid no other asset has
Asset(uuid) == [uuid |-> uuid]

\* the element made from the note's text
markdownElement(enexNote) ==
    [type |-> "markdown",
     args |-> [id |-> "markdown1"],
     content |-> enmlToMarkdown(enexNote.content)]

\* the element made from a resource
resourceElement(mime, fileCount, imageCount, asset) ==
    IF IsImage(mime)
        THEN [type |-> "image",
              args |-> [id |-> <<"image", imageCount + 1>>,
                        y |-> 10 + (335 * (fileCount + imageCount)),
                        ext |-> asset.uuid],
              content |-> "AS"]
        ELSE [type |-> "file",
              args |-> [id |-> <<"file", fileCount + 1>>,
                        y |-> 10 + (335 * (fileCount + imageCount)),
                        ext |-> asset.uuid,
                        filename |-> <<"file", fileCount>>],
              content |-> "AS"]

RECURSIVE addNotes(_, _, _)
\* notes.forEach(note => section = section.addNote(note))
addNotes(h, section, notes) ==
    IF notes = <<>> THEN [h |-> h, ret |-> section]
    ELSE addNotes(SectionAddNote(h, section, Head(notes)).h,
                  SectionAddNote(h, section, Head(notes)).ret,
                  Tail(notes))

\* let notepad = new Notepad(...); let section = new Section('Imported Notes')
EnexInit ==
    /\ \E now \in Dates :
           heap = [notepads |-> <<Notepad("Evernote Import", << >>, now)>>,
                   sections |-> <<Section("Imported Notes", <<>>, <<>>, 1)>>,
                   notes |-> <<>>]
    /\ \E exported \in EnexExports :
           enex = [phase |-> "running", exported |-> exported, notes |-> <<>>,
                   section |-> 1, assets |-> 0, result |-> 0]
    /\ notepad = 1
    /\ nextRef = 1
    /\ freeSections = {}
    /\ freeNotes = {}
    /\ call = NoCall
    /\ flat = [valid |-> FALSE]
    /\ rebuilt = [valid |-> FALSE]
    /\ budget = 0
    /\ trie = [lastModified |-> InvalidDate, root |-> <<>>, hashtags |-> <<>>, size |-> 0]
    /\ added = <<>>

\* every callback has been called by map() and is suspended
AllStarted == Len(enex.notes) = Len(enex.exported)

\* map() calls the callback of the next note: it constructs the Note,
\* starts the callback of each resource, and suspends
EnexNote ==
    /\ enex.phase = "running"
    /\ ~AllStarted
    /\ LET enexNote == enex.exported[Len(enex.notes) + 1]
       IN  /\ heap' = [heap EXCEPT !.notes = Append(@,
                          Note("Imported Note", <<markdownElement(enexNote)>>, <<>>,
                               nextRef + 1))]
           /\ enex' = [enex EXCEPT !.notes = Append(@,
                          [note |-> Len(heap.notes) + 1,
                           fileCount |-> 0,
                           imageCount |-> 0,
                           resource |-> reverse(enexNote.resource),
                           pending |-> 1 .. Len(enexNote.resource)])]
    /\ nextRef' = nextRef + 1
    /\ UNCHANGED <<notepad, freeSections, freeNotes, call, flat, rebuilt, budget, trieVars>>

\* the blob of one resource resolves and its callback runs to the end
EnexResource ==
    /\ enex.phase = "running"
    /\ AllStarted
    /\ \E n \in DOMAIN enex.notes : \E r \in enex.notes[n].pending : \E now \in Dates :
         LET cb == enex.notes[n]
             asset == Asset(enex.assets + 1)
             withAsset == addAsset(heap, notepad, asset, now)
             element == resourceElement(cb.resource[r], cb.fileCount, cb.imageCount, asset)
             withElement == addElement(withAsset.h, cb.note, element)
         IN  /\ heap' = withElement.h
             /\ notepad' = withAsset.ret
             /\ enex' = [enex EXCEPT
                    !.assets = @ + 1,
                    !.notes[n] = [cb EXCEPT
                        !.note = withElement.ret,
                        !.pending = @ \ {r},
                        !.imageCount = IF IsImage(cb.resource[r]) THEN @ + 1 ELSE @,
                        !.fileCount = IF IsImage(cb.resource[r]) THEN @ ELSE @ + 1]]
    /\ UNCHANGED <<nextRef, freeSections, freeNotes, call, flat, rebuilt, budget, trieVars>>

\* every note has resolved: the notes join the section and the function
\* returns notepad.addSection(section)
EnexReturn ==
    /\ enex.phase = "running"
    /\ AllStarted
    /\ \A n \in DOMAIN enex.notes : enex.notes[n].pending = {}
    /\ \E now \in Dates :
         LET filled == addNotes(heap, enex.section,
                                [n \in DOMAIN enex.notes |-> enex.notes[n].note])
             returned == addSection(filled.h, notepad, filled.ret, now)
         IN  /\ heap' = returned.h
             /\ enex' = [enex EXCEPT !.phase = "returned",
                                     !.section = filled.ret,
                                     !.result = returned.ret]
    /\ UNCHANGED <<notepad, nextRef, freeSections, freeNotes, call, flat, rebuilt, budget,
                   trieVars>>

EnexNext ==
    \/ EnexNote
    \/ EnexResource
    \/ EnexReturn

EnexSpec == EnexInit /\ [][EnexNext]_vars

----------------------------------------------------------------------------
(* An index built for a Notepad: constructed with the Notepad's            *)
(* lastModified, filled by add, and asked shouldReindex with the           *)
(* lastModified of the caller's current Notepad.                           *)

\* parse(notepad.lastModified): the Date a caller reads off a Notepad
LastModifiedOf(h, this) == Date(ParseDate(h.notepads[this].lastModified))

\* notepad = new Notepad(title); index = new Trie(parse(notepad.lastModified))
IndexInit ==
    /\ \E now \in Dates :
           /\ heap = [EmptyHeap EXCEPT !.notepads = <<Notepad("np", << >>, now)>>]
           /\ trie = Trie(Date(ParseDate(Notepad("np", << >>, now).lastModified)))
    /\ notepad = 1
    /\ nextRef = 0
    /\ freeSections = {}
    /\ freeNotes = {}
    /\ call = NoCall
    /\ flat = [valid |-> FALSE]
    /\ rebuilt = [valid |-> FALSE]
    /\ budget = MaxIndexed
    /\ enex = NoImport
    /\ added = <<>>

\* index.shouldReindex(parse(notepad.lastModified), numberOfNotes)
IndexShouldReindex ==
    /\ \E numberOfNotes \in 0 .. budget :
         call' = Record("shouldReindex", notepad,
                        [lastModified |-> LastModifiedOf(heap, notepad),
                         numberOfNotes |-> numberOfNotes],
                        shouldReindex(trie, LastModifiedOf(heap, notepad), numberOfNotes),
                        trie)
    /\ UNCHANGED <<treeVars, budget, enex, trieVars>>

IndexNext ==
    \/ TrieAdd
    \/ Modified
    \/ IndexShouldReindex

IndexSpec == IndexInit /\ [][IndexNext]_vars

----------------------------------------------------------------------------
(* What a tree holds, read from the children lists (never from parent):    *)
(* who holds which Section object, and every Note with its owner.          *)

RECURSIVE Holdings(_, _, _, _)
Holdings(h, holderObj, holderRef, sections) ==
    UNION {LET sec == h.sections[sections[i]]
           IN  {[holderObj |-> holderObj, holderRef |-> holderRef, section |-> sections[i]]}
                   \cup Holdings(h, sections[i], sec.internalRef, sec.sections)
           : i \in DOMAIN sections}

TreeHoldings(h, np) == Holdings(h, 0, NoRef, h.notepads[np].sections)

TreeSections(h, np) ==
    {[parent |-> x.holderRef, internalRef |-> h.sections[x.section].internalRef]
        : x \in TreeHoldings(h, np)}

TreeNotes(h, np) ==
    UNION {LET sec == h.sections[x.section]
           IN  {[parent |-> sec.internalRef,
                 internalRef |-> h.notes[sec.notes[i]].internalRef,
                 elements |-> h.notes[sec.notes[i]].elements,
                 bibliography |-> h.notes[sec.notes[i]].bibliography]
                    : i \in DOMAIN sec.notes}
           : x \in TreeHoldings(h, np)}

Range(f) == {f[i] : i \in DOMAIN f}

----------------------------------------------------------------------------
(* Claims *)

\* C1: every Section in the current Notepad's sections list has a parent
\* back-reference that is exactly the current Notepad, never an earlier
\* version of it.
C1_ParentIsCurrentNotepad ==
    \A i \in DOMAIN heap.notepads[notepad].sections :
        heap.sections[heap.notepads[notepad].sections[i]].parent
            = [kind |-> "Notepad", id |-> notepad]

\* C2: addSection(s) returns a new Notepad whose sections are the receiver's
\* sections followed by s, and right after the call s.parent is the returned
\* Notepad, not the receiver.
C2_AddSectionAppendsAndLinks ==
    call.op = "addSection" =>
        /\ call.ret # call.this
        /\ heap.notepads[call.ret].sections = Append(call.pre.sections, call.arg)
        /\ heap.sections[call.arg].parent = [kind |-> "Notepad", id |-> call.ret]
        /\ heap.sections[call.arg].parent # [kind |-> "Notepad", id |-> call.this]

C2_Witness ==
    /\ call.op = "addSection"
    /\ Len(call.pre.sections) >= 1
    /\ Len(heap.notepads[call.ret].sections) = Len(call.pre.sections) + 1

\* C3: addSection, addAsset and modified (and Note.addElement, addSource)
\* return a value that is not the receiver and leave every field of the
\* receiver as it was before the call.
C3_ReceiverUntouched ==
    /\ call.op \in {"addSection", "addAsset", "modified"} =>
           /\ call.ret # call.this
           /\ heap.notepads[call.this] = call.pre
    /\ call.op \in {"addElement", "addSource"} =>
           /\ call.ret # call.this
           /\ heap.notes[call.this] = call.pre

C3_Witness ==
    /\ call.op = "addAsset"
    /\ Len(call.pre.assets) >= 1
    /\ Len(call.pre.sections) >= 1
    /\ heap.notepads[call.ret].assets # call.pre.assets

\* C6: lastModified changes only at a modified step: the Notepad returned by
\* addSection or addAsset (or a plain clone) has the receiver's lastModified,
\* and modified(d) sets lastModified to d and leaves title, sections, assets
\* and notepadAssets equal to the receiver's.
C6_LastModifiedOnlyByModified ==
    /\ call.op \in {"addSection", "addAsset", "clone"} =>
           heap.notepads[call.ret].lastModified = call.pre.lastModified
    /\ call.op = "modified" =>
           /\ ParseDate(heap.notepads[call.ret].lastModified) = call.arg
           /\ (call.arg # ParseDate(call.pre.lastModified)
                  => heap.notepads[call.ret].lastModified # call.pre.lastModified)
           /\ heap.notepads[call.ret].title = call.pre.title
           /\ heap.notepads[call.ret].sections = call.pre.sections
           /\ heap.notepads[call.ret].assets = call.pre.assets
           /\ heap.notepads[call.ret].notepadAssets = call.pre.notepadAssets

C6_Witness ==
    /\ call.op = "addSection"
    /\ heap.notepads[call.ret].lastModified # heap.notepads[1].lastModified
    /\ Len(heap.notepads[call.ret].assets) >= 1

\* C4: flatten(N).toNotepad() has the same Section and Note internalRefs as N,
\* the same holder for each of them (top-level sections stay top-level), and
\* the same elements and bibliography for every Note.
C4_RoundTrip ==
    rebuilt.valid =>
        /\ TreeSections(rebuilt.h, rebuilt.ret) = TreeSections(heap, rebuilt.src)
        /\ TreeNotes(rebuilt.h, rebuilt.ret) = TreeNotes(heap, rebuilt.src)
        /\ Cardinality(TreeHoldings(rebuilt.h, rebuilt.ret))
               = Cardinality(TreeHoldings(heap, rebuilt.src))

C4_Witness ==
    /\ rebuilt.valid
    /\ \E x \in TreeSections(rebuilt.h, rebuilt.ret) : x.parent # NoRef
    /\ \E n \in TreeNotes(rebuilt.h, rebuilt.ret) : n.elements # <<>>

\* C5: flatten() emits one descriptor for every Section of the tree; the
\* descriptor of a section held by a Section has that holder's internalRef
\* as parentRef, the descriptor of a top-level section has no parentRef, and
\* a parentRef is there only when the section's parent is a Section.
C5_ParentRef ==
    flat.valid =>
        /\ \A x \in TreeHoldings(heap, flat.src) :
               /\ Cardinality({i \in DOMAIN flat.value.sections :
                      flat.value.sections[i].internalRef
                          = heap.sections[x.section].internalRef}) = 1
               /\ \A d \in Range(flat.value.sections) :
                      d.internalRef = heap.sections[x.section].internalRef =>
                          /\ d.parentRef = x.holderRef
                          /\ d.parentRef # NoRef <=>
                                 heap.sections[x.section].parent.kind = "Section"
        /\ \A d \in Range(flat.value.sections) :
               \E x \in TreeHoldings(heap, flat.src) :
                   heap.sections[x.section].internalRef = d.internalRef

\* a nested section whose parent field still names an earlier version of
\* its holder, next to a top-level section
C5_Witness ==
    /\ flat.valid
    /\ \E x \in TreeHoldings(heap, flat.src) :
           /\ x.holderObj # 0
           /\ heap.sections[x.section].parent.id # x.holderObj
    /\ \E d \in Range(flat.value.sections) : d.parentRef = NoRef
    /\ \E d \in Range(flat.value.sections) : d.parentRef # NoRef

----------------------------------------------------------------------------
(* Claims about the search index, stated against the log of add calls *)

IsPrefix(q, key) == Len(q) <= Len(key) /\ SubSeq(key, 1, Len(q)) = q

NoDuplicates(list) == \A i, j \in DOMAIN list : list[i] = list[j] => i = j

\* the position of the first add of ref under key
FirstAdd(key, ref) ==
    CHOOSE i \in DOMAIN added :
        /\ added[i] = [key |-> key, ref |-> ref]
        /\ \A j \in 1 .. (i - 1) : added[j] # added[i]

\* C7: search(q), q not beginning with '#', returns exactly the refs added
\* under some non-hashtag key that has q as a prefix, each once; nothing when
\* no such key exists; search("") returns every ref added under a
\* non-hashtag key.
C7_PrefixSearch ==
    (call.op = "search" /\ ~IsHashtag(call.arg)) =>
        /\ Range(call.ret) =
               {added[i].ref : i \in {j \in DOMAIN added :
                    ~IsHashtag(added[j].key) /\ IsPrefix(call.arg, added[j].key)}}
        /\ NoDuplicates(call.ret)
        /\ (call.arg = <<>> =>
               Range(call.ret) =
                   {added[i].ref : i \in {j \in DOMAIN added : ~IsHashtag(added[j].key)}})

\* "a" finds what was added under "a" and under "ab", a repeated ref once
C7_Witness ==
    /\ call.op = "search"
    /\ call.arg = <<"a">>
    /\ Len(call.ret) = 2
    /\ Len(getAllFrom(trie.root, <<"a">>)) = 3
    /\ \E i \in DOMAIN added : added[i].key = <<"a", "b">>

\* C8: add(h, r) with h a hashtag is idempotent, and search(h) returns the
\* refs added under exactly h, in first-insertion order and without
\* duplicates; a hashtag that is only a proper prefix of an inserted one, or
\* was never inserted, finds nothing.
C8_HashtagExact ==
    /\ (/\ call.op = "add"
        /\ IsHashtag(call.arg.key)
        /\ \E i \in 1 .. (Len(added) - 1) : added[i] = call.arg)
           => trie = call.pre
    /\ (call.op = "search" /\ IsHashtag(call.arg)) =>
           /\ Range(call.ret) =
                  {added[i].ref : i \in {j \in DOMAIN added : added[j].key = call.arg}}
           /\ NoDuplicates(call.ret)
           /\ \A i, j \in DOMAIN call.ret :
                  i < j => FirstAdd(call.arg, call.ret[i]) < FirstAdd(call.arg, call.ret[j])

\* "#a" added twice with the same ref, "#ab" added with another: "#a" finds
\* the one ref once
C8_Witness ==
    /\ call.op = "search"
    /\ call.arg = <<"#", "a">>
    /\ call.ret = <<"r1">>
    /\ Len(added) = 3
    /\ Cardinality({i \in DOMAIN added : added[i] = [key |-> <<"#", "a">>, ref |-> "r1"]}) = 2
    /\ \E i \in DOMAIN added : added[i] = [key |-> <<"#", "a", "b">>, ref |-> "r2"]

\* C9: shouldReindex(t, n) always answers true or false, and answers true
\* exactly when the timestamp the index was built with is strictly after t
\* or n differs from the index's size.
C9_ShouldReindex ==
    call.op = "shouldReindex" =>
        /\ call.ret \in BOOLEAN
        /\ call.ret <=>
               \/ /\ ~trie.lastModified.nan
                  /\ ~call.arg.lastModified.nan
                  /\ trie.lastModified.ms > call.arg.lastModified.ms
               \/ call.arg.numberOfNotes # trie.size

\* the same instant and the same count: not stale
C9_Witness ==
    /\ call.op = "shouldReindex"
    /\ call.ret = FALSE
    /\ ~trie.lastModified.nan
    /\ call.arg.lastModified = trie.lastModified
    /\ trie.size = 2

\* C10: size is the number of add calls made so far with a key that does not
\* begin with '#', repeats counted; add with a hashtag key and search leave
\* size unchanged.
C10_SizeCountsTitleAdds ==
    /\ trie.size = Cardinality({i \in DOMAIN added : ~IsHashtag(added[i].key)})
    /\ (call.op = "add" /\ IsHashtag(call.arg.key)) => trie.size = call.pre.size
    /\ call.op = "search" => trie.size = call.pre.size

\* the same key and ref added twice, then a hashtag, then a search
C10_Witness ==
    /\ call.op = "search"
    /\ Len(added) = 3
    /\ added[1] = added[2]
    /\ ~IsHashtag(added[1].key)
    /\ IsHashtag(added[3].key)
    /\ trie.size = 2

----------------------------------------------------------------------------
(* Claims about Note.search *)

\* q occurs in text at offset k, letter case ignored
OccursIgnoringCase(text, q, k) ==
    /\ k + Len(q) <= Len(text)
    /\ \A i \in 1 .. Len(q) : Lower(text[k + i]) = Lower(q[i])

\* q stands in text at offset k as a whole hashtag: '#', then word
\* characters, ending where the text ends or a non-word character follows
IsHashtagAt(text, q, k) ==
    /\ Len(q) >= 2
    /\ k + Len(q) <= Len(text)
    /\ \A i \in 1 .. Len(q) : text[k + i] = q[i]
    /\ \A i \in 2 .. Len(q) : IsWordChar(q[i])
    /\ (k + Len(q) < Len(text) => ~IsWordChar(text[k + Len(q) + 1]))

\* C11: Note.search(q) returns [note] or []: [note] for the empty query; for
\* a query not beginning with '#', [note] exactly when the title contains q
\* ignoring case; for a query beginning with '#', [note] exactly when q is
\* one of the note's hashtags as a whole token (a proper prefix of a hashtag
\* does not match).
C11_NoteSearch ==
    call.op = "Note.search" =>
        LET q == Characters(call.arg)
            note == heap.notes[call.this]
            title == Characters(note.title)
        IN  /\ call.ret \in {<<call.this>>, <<>>}
            /\ q = <<>> => call.ret = <<call.this>>
            /\ (q # <<>> /\ q[1] # "#") =>
                   (call.ret = <<call.this>> <=>
                       \E k \in 0 .. Len(title) : OccursIgnoringCase(title, q, k))
            /\ (q # <<>> /\ q[1] = "#") =>
                   (call.ret = <<call.this>> <=>
                       \E i \in DOMAIN note.elements :
                           \E k \in 0 .. Len(Characters(note.elements[i].content)) :
                               IsHashtagAt(Characters(note.elements[i].content), q, k))

\* "#ab" does not find a note whose only hashtag is "#abc"
C11_Witness ==
    /\ call.op = "Note.search"
    /\ call.arg = "#ab"
    /\ call.ret = <<>>
    /\ Len(heap.notes[call.this].elements) = 1
    /\ heap.notes[call.this].elements[1].content = "#abc"

----------------------------------------------------------------------------
(* Claims about toNotepadFromEnex *)

RECURSIVE CountResources(_)
\* the resources of all notes of the export
CountResources(notes) ==
    IF notes = <<>> THEN 0
    ELSE Len(Head(notes).resource) + CountResources(Tail(notes))

\* the elements of the returned Notepad
ReturnedElements ==
    UNION {UNION {Range(heap.notes[note].elements)
                     : note \in Range(heap.sections[section].notes)}
              : section \in Range(heap.notepads[enex.result].sections)}

\* the element's ext is the uuid of an asset the returned Notepad lists
Resolves(element) ==
    /\ "ext" \in DOMAIN element.args
    /\ element.args.ext \in Range(heap.notepads[enex.result].notepadAssets)

\* Whatever the order of the callbacks, every image and file element of the
\* returned Notepad resolves, every note is in it, and there is one asset
\* per resource, each under its own uuid.
EnexAttachmentsResolve ==
    enex.phase = "returned" =>
        /\ \A element \in ReturnedElements :
               element.type \in {"image", "file"} => Resolves(element)
        /\ Len(heap.notepads[enex.result].assets) = CountResources(enex.exported)
        /\ Len(heap.notepads[enex.result].notepadAssets) = CountResources(enex.exported)
        /\ Cardinality(Range(heap.notepads[enex.result].notepadAssets))
               = CountResources(enex.exported)
        /\ Cardinality({element \in ReturnedElements : element.type \in {"image", "file"}})
               = CountResources(enex.exported)

\* C12: for every interleaving of the callbacks of toNotepadFromEnex, every
\* element with content 'AS' in the returned Notepad carries an ext equal to
\* a uuid in the returned Notepad's notepadAssets, and the number of assets
\* equals the total number of resources.
C12_SentinelElementsResolve ==
    enex.phase = "returned" =>
        /\ \A element \in ReturnedElements : element.content = "AS" => Resolves(element)
        /\ Len(heap.notepads[enex.result].assets) = CountResources(enex.exported)

----------------------------------------------------------------------------
(* Claims about an index kept beside its Notepad *)

\* the notes indexed: the add calls with a non-hashtag key
NotesIndexed == Cardinality({i \in DOMAIN added : ~IsHashtag(added[i].key)})

\* C13: an index constructed with the Notepad's lastModified T and filled
\* with one non-hashtag add per note answers shouldReindex(T', n) = false
\* whenever n is the number of notes indexed and T', the lastModified of the
\* current Notepad, is not earlier than T: touching the Notepad to a later
\* lastModified never makes the index report stale.
C13_IndexStaysFresh ==
    (/\ call.op = "shouldReindex"
     /\ call.arg.numberOfNotes = NotesIndexed
     /\ ParseDate(heap.notepads[call.this].lastModified)
            >= ParseDate(heap.notepads[1].lastModified))
        => call.ret = FALSE

\* two notes indexed, the Notepad touched to a later time, and the index
\* still reports fresh
C13_Witness ==
    /\ call.op = "shouldReindex"
    /\ call.this > 1
    /\ ParseDate(heap.notepads[call.this].lastModified)
           > ParseDate(heap.notepads[1].lastModified)
    /\ NotesIndexed = 2
    /\ call.arg.numberOfNotes = 2
    /\ call.ret = FALSE

====
